---- MODULE Spec2Model ----
(***************************************************************************)
(* Model of efficient/model.py: the validation split, the cyclic Dataset   *)
(* and the training loop CharCNNLSTMModel.fit with its evaluator predict.  *)
(*                                                                         *)
(* Abstractions.  A content is a word id (a natural number); the encoder   *)
(* vocab.src.to_input_tensor_char and the per-item lengths are not         *)
(* modelled.  The classifier CharCNNLSTM and the optimizer of              *)
(* TorchModelBase are not in the source tree: the trainable parameters are *)
(* a value in Params, an optimizer step moves them to any value of Params, *)
(* and the forward pass is a fixed function of (parameters, content).      *)
(* A validation fraction is a rational <<num, den>>; accuracies are        *)
(* rationals <<num, den>> in lowest terms.                                 *)
(***************************************************************************)
EXTENDS Integers, Sequences, FiniteSets, TLC

VARIABLES
  pc,              \* position of the caller / of fit
  contents,        \* input: sequence of contents
  labels,          \* input: sequence of raw labels
  vf,              \* input: validation_fraction as <<num, den>>
  rng,             \* state of the module-level random generator (0 = just seeded with 0)
  split_out,       \* value returned by the last call of _build_validation_split
  split_hist,      \* history: the calls of the split that returned so far
  train_set,       \* self.train_set (a Dataset object)
  val_set,         \* self.val_set   (a Dataset object)
  log,             \* history: the batches returned by Dataset.__getitem__, in call order
  max_iter,        \* self.max_iter
  batch_size,      \* self.batch_size
  val_batch_size,  \* self.val_batch_size
  iter_step,       \* fit: the outer loop variable
  batch_step,      \* fit: the inner loop variable
  batch_index,     \* fit: the loop variable of the fuller validation pass
  mode,            \* self.model.training: "training" or "eval"
  params,          \* the trainable parameters of self.model
  opt_steps,       \* the optimizer's state: the number of steps it has applied
  train_draws,     \* history: number of training batches drawn
  n_records,       \* history: number of progress records printed
  last_record,     \* history: the progress record printed in this iteration
  files,           \* the checkpoint directory: file tag -> saved state_dict
  writes,          \* history: file tag -> number of torch.save calls on it
  best_accuracy,   \* fit: best_accuracy, a rational <<num, den>>
  val_accuracies,  \* fit: val_accuracies
  pass_evals,      \* history: validation positions evaluated in the fuller pass
  pass_hist,       \* history: total_val_accuracy of every fuller pass so far
  best_iter,       \* history: the iteration that last wrote the 'best' checkpoint
  val_draws,       \* history: number of validation batches that fit drew
  cur_batch,       \* fit: the batch last drawn and not yet consumed
  last_train,      \* fit: pred, labels and losses of the last inner-loop step
  last_predict     \* history: input and result of the last predict call

apivars == <<contents, labels, vf, rng, split_out, split_hist>>
dsvars == <<train_set, val_set, log>>
cfgvars == <<max_iter, batch_size, val_batch_size>>
loopvars == <<iter_step, batch_step, batch_index>>
netvars == <<mode, params, opt_steps>>
outvars == <<n_records, last_record, files, writes>>
evalvars == <<best_accuracy, val_accuracies, pass_evals, pass_hist, best_iter>>
tmpvars == <<train_draws, val_draws, cur_batch, last_train, last_predict>>
fitvars == <<cfgvars, loopvars, netvars, outvars, evalvars, tmpvars>>

vars == <<pc, apivars, dsvars, fitvars>>

(***************************** bounds ***************************************)
MaxSplitN == 3       \* longest input list given to the split on its own
MaxDen == 3          \* largest denominator of a validation fraction
MaxRng == 2          \* number of distinguished generator states besides "seeded with 0"
MaxDsN == 3          \* largest Dataset exercised on its own
MaxB == 2            \* largest batch size requested from a Dataset on its own
MaxCalls == 3        \* number of Dataset retrievals recorded in the log
NumWords == 2        \* number of distinct contents given to the split on its own
MaxSizeSteps == 6    \* fit is given 0, 5, 10, ... 5 * MaxSizeSteps examples
MaxIter == 20        \* largest max_iter given to fit
MaxFitB == 2         \* largest batch_size given to fit
MaxFitBv == 2        \* largest val_batch_size given to fit
NumParams == 2       \* number of distinguished values of the trainable parameters
MaxSplitCalls == 2   \* number of calls of the split that the history counts
MaxFairSteps == 2    \* fit under fairness is called on 0, 5, .. 5 * MaxFairSteps examples

(************************ program constants *********************************)
NumClasses == 4      \* raw labels are [1,2,3,4]
DefaultFractionDen == 10   \* validation_fraction=0.1
InnerSteps == 19     \* for batch_step in range(1, 20)
SaveEvery == 10      \* if iter_step % 10 == 0

(****************************** helpers *************************************)
Min(a, b) == IF a < b THEN a ELSE b

RECURSIVE Gcd(_, _)
Gcd(a, b) == IF b = 0 THEN a ELSE Gcd(b, a % b)

CeilDiv(a, b) == (a + b - 1) \div b

Range(s) == {s[i] : i \in DOMAIN s}

NoValue == [none |-> TRUE]

(************************ _build_validation_split ***************************)
\* random.seed(0); random.shuffle(x) for a list of n items (CPython's
\* Mersenne Twister and Fisher-Yates shuffle): position i of the shuffled
\* list holds the item that stood at position Seed0Perm(n)[i].
Seed0Perm(n) ==
  CASE n = 0 -> << >>
    [] n = 1 -> <<1>>
    [] n = 2 -> <<1, 2>>
    [] n = 3 -> <<1, 3, 2>>
    [] n = 4 -> <<3, 1, 2, 4>>
    [] n = 5 -> <<3, 2, 1, 5, 4>>
    [] n = 6 -> <<5, 3, 2, 1, 6, 4>>
    [] n = 7 -> <<5, 3, 2, 1, 6, 4, 7>>
    [] n = 8 -> <<5, 2, 6, 3, 1, 4, 8, 7>>
    [] n = 9 -> <<8, 6, 2, 4, 5, 3, 1, 9, 7>>
    [] n = 10 -> <<8, 9, 2, 6, 4, 5, 3, 1, 10, 7>>
    [] n = 11 -> <<9, 10, 2, 3, 6, 4, 8, 5, 1, 11, 7>>
    [] n = 12 -> <<2, 10, 9, 6, 11, 3, 4, 8, 5, 1, 12, 7>>
    [] n = 13 -> <<2, 11, 10, 6, 12, 3, 4, 8, 9, 5, 1, 13, 7>>
    [] n = 14 -> <<2, 11, 10, 6, 12, 3, 4, 8, 9, 5, 1, 13, 7, 14>>
    [] n = 15 -> <<2, 11, 10, 6, 12, 3, 4, 8, 9, 5, 1, 15, 13, 7, 14>>
    [] n = 16 -> <<11, 15, 6, 2, 10, 3, 4, 12, 14, 8, 9, 5, 1, 7, 16, 13>>
    [] n = 17 -> <<3, 15, 4, 17, 11, 2, 10, 6, 12, 16, 7, 8, 9, 5, 1, 14, 13>>
    [] n = 18 -> <<12, 10, 1, 17, 3, 16, 11, 4, 6, 18, 15, 7, 8, 9, 5, 2, 14, 13>>
    [] n = 19 -> <<10, 12, 15, 19, 1, 17, 11, 3, 4, 6, 18, 5, 7, 8, 16, 9, 2, 14, 13>>
    [] n = 20 -> <<11, 19, 17, 15, 1, 18, 12, 3, 4, 10, 6, 8, 5, 20, 7, 16, 9, 2, 14, 13>>
    [] n = 21 -> <<11, 20, 18, 15, 1, 19, 12, 3, 4, 10, 6, 8, 5, 21, 7, 16, 17, 9, 2, 14, 13>>
    [] n = 22 -> <<11, 21, 19, 7, 1, 20, 12, 3, 4, 10, 6, 8, 5, 18, 15, 22, 16, 17, 9, 2,
                   14, 13>>
    [] n = 23 -> <<21, 22, 12, 15, 11, 1, 7, 19, 5, 3, 20, 4, 18, 6, 8, 10, 23, 16, 17,
                   9, 2, 14, 13>>
    [] n = 24 -> <<15, 1, 18, 8, 7, 12, 23, 22, 11, 5, 3, 21, 4, 20, 6, 19, 10, 24, 16,
                   17, 9, 2, 14, 13>>
    [] n = 25 -> <<15, 1, 24, 19, 7, 6, 8, 11, 23, 21, 5, 3, 22, 4, 18, 12, 20, 10, 25,
                   16, 17, 9, 2, 14, 13>>
    [] n = 26 -> <<15, 1, 24, 19, 7, 6, 8, 11, 23, 21, 5, 3, 22, 4, 18, 12, 20, 10, 26,
                   16, 17, 9, 2, 14, 25, 13>>
    [] n = 27 -> <<4, 15, 11, 18, 6, 1, 8, 22, 20, 19, 24, 26, 5, 3, 23, 7, 12, 21, 10,
                   27, 16, 17, 9, 2, 14, 25, 13>>
    [] n = 28 -> <<4, 15, 11, 18, 6, 1, 8, 22, 20, 19, 24, 26, 5, 3, 23, 7, 12, 21, 10,
                   27, 16, 17, 9, 2, 14, 25, 13, 28>>
    [] n = 29 -> <<4, 11, 18, 23, 6, 1, 8, 26, 24, 15, 20, 27, 21, 3, 19, 5, 7, 12, 22,
                   10, 29, 16, 17, 9, 2, 14, 25, 13, 28>>
    [] n = 30 -> <<4, 11, 19, 18, 6, 1, 8, 27, 30, 15, 21, 26, 22, 3, 20, 5, 24, 7, 12,
                   23, 10, 29, 16, 17, 9, 2, 14, 25, 13, 28>>
    [] n = 31 -> <<4, 11, 20, 18, 6, 1, 8, 31, 26, 15, 22, 27, 23, 3, 21, 5, 29, 7, 19, 12,
                   24, 10, 30, 16, 17, 9, 2, 14, 25, 13, 28>>
    [] n = 32 -> <<4, 8, 30, 21, 20, 6, 1, 11, 15, 27, 18, 22, 28, 24, 3, 23, 5, 26, 7, 19,
                   12, 31, 10, 13, 16, 17, 9, 2, 14, 29, 32, 25>>
    [] n = 33 -> <<8, 21, 23, 24, 11, 1, 6, 31, 14, 3, 15, 30, 20, 32, 18, 4, 22, 33, 5, 29,
                   7, 19, 12, 28, 10, 26, 13, 16, 17, 9, 2, 27, 25>>
    [] n = 34 -> <<8, 1, 28, 21, 11, 6, 22, 14, 2, 18, 32, 23, 24, 34, 15, 31, 4, 20, 33, 5,
                   30, 7, 19, 12, 29, 10, 26, 13, 16, 17, 9, 3, 27, 25>>
    [] n = 35 -> <<8, 1, 28, 21, 11, 6, 22, 14, 2, 18, 33, 23, 24, 35, 15, 9, 4, 20, 34, 5,
                   30, 7, 19, 12, 29, 10, 26, 13, 16, 32, 31, 17, 3, 27, 25>>

\* random.shuffle in generator state r.  In state 0 (just seeded with 0) the
\* permutation is Seed0Perm; another state gives another permutation (here
\* Seed0Perm rotated by r places).
Shuffle(r, xs) ==
  LET n == Len(xs)
      p == Seed0Perm(n)
  IN  [i \in 1..n |-> xs[p[((i - 1 + r) % n) + 1]]]

\* State of the generator after it has produced some numbers: never again the
\* state "just seeded with 0".
Advance(r) == IF r >= MaxRng THEN 1 ELSE r + 1

\* random.seed(0)
Seed0 == 0

\* Mutant of SeededState: the split does not seed the generator.
SeededState_NotSeeded(r) == r

\* The generator after random.seed(0), whatever its state r was before.
SeededState(r) == Seed0

\* The generator after shuffling n items: a list of fewer than two items
\* draws nothing.
AfterShuffle(r, n) == IF n < 2 THEN r ELSE Advance(r)

\* Mutant of SplitAssertHolds: the assertion is missing.
SplitAssertHolds_Missing(cs, ls) == TRUE

\* assert len(contents) == len(labels)
SplitAssertHolds(cs, ls) == Len(cs) = Len(ls)

\* list(zip(contents, labels)); the field i is the position of the pair in
\* the input (history only: the code does not keep it).
ZipPairs(cs, ls) ==
  [i \in 1..Min(Len(cs), Len(ls)) |-> [c |-> cs[i], l |-> ls[i], i |-> i]]

\* int(len(all_train) * validation_fraction), f = <<num, den>>
SplitIndex(n, f) == (n * f[1]) \div f[2]

\* Mutant of TrainPart: the slice starts one item late.
TrainPart_SkipsOne(all, k) == SubSeq(all, k + 2, Len(all))

\* all_train[split_index:]
TrainPart(all, k) == SubSeq(all, k + 1, Len(all))

\* all_train[:split_index]
ValPart(all, k) == SubSeq(all, 1, k)

\* The value returned by _build_validation_split(cs, ls, f) when the
\* assertion holds; train_idx and val_idx (the input positions) are history.
BuildValidationSplit(cs, ls, f) ==
  LET SplitOf(all_train) ==
        LET split_index == SplitIndex(Len(all_train), f)
            train == TrainPart(all_train, split_index)
            val == ValPart(all_train, split_index)
        IN  [train_contents |-> [k \in DOMAIN train |-> train[k].c],
             train_labels   |-> [k \in DOMAIN train |-> train[k].l],
             val_contents   |-> [k \in DOMAIN val |-> val[k].c],
             val_labels     |-> [k \in DOMAIN val |-> val[k].l],
             train_idx      |-> [k \in DOMAIN train |-> train[k].i],
             val_idx        |-> [k \in DOMAIN val |-> val[k].i],
             split_index    |-> split_index]
  \* all_train is a local variable: it is evaluated once
  IN  CHOOSE sp \in {SplitOf(all_train) :
                       all_train \in {Shuffle(SeededState(rng), ZipPairs(cs, ls))}} : TRUE

(******************************* Dataset ************************************)
\* assert len(self.contents) == len(self.labels)
DatasetAssertHolds(cs, ls) == Len(cs) = Len(ls)

\* Dataset.__init__ when its assertion holds.  pos is the state of
\* data_generator = iter(cycle(list(zip(contents, labels)))): the 0-based
\* position of the pair that next() yields next.
NewDataset(cs, ls) == [contents |-> cs, labels |-> ls, pos |-> 0]

NoDataset == NewDataset(<< >>, << >>)

\* Dataset.__len__
DatasetLen(ds) == Len(ds.labels)

\* Mutant of DrawnIndex: every retrieval restarts the cycle.
DrawnIndex_Restarts(pos, k, n) == ((k - 1) % n) + 1

\* The stored position (1-based) of the k-th item (k = 1..B) that
\* [next(self.data_generator) for _ in range(batch_size)] yields.
DrawnIndex(pos, k, n) == ((pos + k - 1) % n) + 1

\* Mutant of NextPos: a retrieval that reaches the end of the list restarts
\* the next one at the first pair.
NextPos_NoCarry(pos, B, n) == IF pos + B >= n THEN 0 ELSE pos + B

\* Mutant of NextPos: a retrieval consumes one item more than it returns.
NextPos_SkipsOne(pos, B, n) == (pos + B + 1) % n

\* The state of the generator after batch_size calls of next().
NextPos(pos, B, n) == (pos + B) % n

\* Mutant of RemapLabel: the raw labels are returned as they are stored.
RemapLabel_Identity(l) == l

\* batch_labels = torch.tensor(batch_labels) - 1
RemapLabel(l) == l - 1

\* Dataset.__getitem__(batch_size) on a dataset of at least one pair: the
\* batch returned and the dataset after the call.  idx (the stored positions
\* drawn) is history.
GetItem(ds, B) ==
  LET n == Len(ds.contents)
      at == [k \in 1..B |-> DrawnIndex(ds.pos, k, n)]
  IN  [batch |-> [contents |-> [k \in 1..B |-> ds.contents[at[k]]],
                  labels   |-> [k \in 1..B |-> RemapLabel(ds.labels[at[k]])],
                  idx      |-> at],
       ds |-> [ds EXCEPT !.pos = NextPos(ds.pos, B, n)]]

\* next() on cycle([]) raises StopIteration
GetItemRaises(ds, B) == B >= 1 /\ Len(ds.contents) = 0

(******************** the state of a model before fit ************************)
\* History of the split: calls = the calls that returned (counted up to
\* MaxSplitCalls), dirty = another user drew from the generator since the
\* last of them, drawn = such a draw happened between the last two of them.
NoSplitYet == [calls |-> 0, dirty |-> FALSE, drawn |-> FALSE]

SplitReturns(h) ==
  [calls |-> Min(h.calls + 1, MaxSplitCalls),
   dirty |-> FALSE,
   drawn |-> h.calls >= 1 /\ h.dirty]

Zero == <<0, 1>>

FitIdle ==
  /\ max_iter = 0 /\ batch_size = 1 /\ val_batch_size = 1
  /\ iter_step = 0 /\ batch_step = 0 /\ batch_index = 0
  /\ mode = "training" /\ params = 0 /\ opt_steps = 0
  /\ train_draws = 0 /\ n_records = 0 /\ last_record = NoValue
  /\ files = << >> /\ writes = << >>
  /\ best_accuracy = Zero /\ val_accuracies = << >> /\ pass_evals = << >>
  /\ pass_hist = << >> /\ best_iter = 0 /\ val_draws = 0
  /\ cur_batch = NoValue /\ last_train = NoValue /\ last_predict = NoValue

(********************* the split called on its own **************************)
Fractions ==
  {<<n, d>> : n \in 0..MaxDen, d \in 1..MaxDen} \cup {<<1, DefaultFractionDen>>}

SeqsUpTo(S, n) == UNION {[1..k -> S] : k \in 0..n}

InitSplit ==
  /\ pc = "api"
  /\ contents \in SeqsUpTo(1..NumWords, MaxSplitN)
  /\ \E k \in 0..MaxSplitN : labels \in [1..k -> 1..2]
  /\ vf \in {f \in Fractions : f[1] <= f[2]}
  /\ rng \in 0..MaxRng
  /\ split_out = NoValue
  /\ split_hist = NoSplitYet
  /\ train_set = NoDataset
  /\ val_set = NoDataset
  /\ log = << >>
  /\ FitIdle

\* A call of _build_validation_split(contents, labels, vf) that returns.
CallSplit ==
  /\ pc = "api"
  /\ SplitAssertHolds(contents, labels)
  /\ split_out' = BuildValidationSplit(contents, labels, vf)
  /\ split_hist' = SplitReturns(split_hist)
  /\ rng' = AfterShuffle(SeededState(rng), Len(contents))
  /\ UNCHANGED <<pc, contents, labels, vf, dsvars, fitvars>>

\* A call of _build_validation_split whose assertion fails.
CallSplitAssertFails ==
  /\ pc = "api"
  /\ ~SplitAssertHolds(contents, labels)
  /\ split_out' = [assertion_error |-> TRUE]
  /\ UNCHANGED <<pc, contents, labels, vf, rng, split_hist, dsvars, fitvars>>

\* Some other user of the module-level generator draws a number.
OtherRandomDraw ==
  /\ pc = "api"
  /\ rng' = Advance(rng)
  /\ split_hist' = [split_hist EXCEPT !.dirty = TRUE]
  /\ UNCHANGED <<pc, contents, labels, vf, split_out, dsvars, fitvars>>

NextSplit == CallSplit \/ CallSplitAssertFails \/ OtherRandomDraw

SpecSplit == InitSplit /\ [][NextSplit]_vars

(******************** the Dataset used on its own ***************************)
InitDataset ==
  /\ pc = "ds_new"
  /\ \E n \in 0..MaxDsN : contents = [i \in 1..n |-> i]
  /\ \E n \in 0..MaxDsN : labels \in [1..n -> 1..NumClasses]
  /\ vf = <<1, DefaultFractionDen>>
  /\ rng = 0
  /\ split_out = NoValue
  /\ split_hist = NoSplitYet
  /\ train_set = NoDataset
  /\ val_set = NoDataset
  /\ log = << >>
  /\ FitIdle

\* Two Dataset objects are constructed over the same lists.
DatasetInit ==
  /\ pc = "ds_new"
  /\ DatasetAssertHolds(contents, labels)
  /\ train_set' = NewDataset(contents, labels)
  /\ val_set' = NewDataset(contents, labels)
  /\ pc' = "ds_ready"
  /\ UNCHANGED <<apivars, log, fitvars>>

\* assert len(self.contents) == len(self.labels) fails.
DatasetInitAssertFails ==
  /\ pc = "ds_new"
  /\ ~DatasetAssertHolds(contents, labels)
  /\ pc' = "aborted"
  /\ UNCHANGED <<apivars, dsvars, fitvars>>

\* train_set[B] or val_set[B] on a non-empty dataset.
DatasetGetItem ==
  /\ pc = "ds_ready"
  /\ Len(log) < MaxCalls
  /\ \E o \in {"train", "val"}, B \in 1..MaxB :
       LET ds == IF o = "train" THEN train_set ELSE val_set
           r == GetItem(ds, B)
       IN  /\ ~GetItemRaises(ds, B)
           /\ log' = Append(log, [set |-> o, B |-> B, batch |-> r.batch])
           /\ IF o = "train"
                THEN train_set' = r.ds /\ val_set' = val_set
                ELSE val_set' = r.ds /\ train_set' = train_set
  /\ UNCHANGED <<pc, apivars, fitvars>>

\* train_set[B] or val_set[B] on an empty dataset: StopIteration.
DatasetGetItemRaises ==
  /\ pc = "ds_ready"
  /\ \E o \in {"train", "val"}, B \in 1..MaxB :
       GetItemRaises(IF o = "train" THEN train_set ELSE val_set, B)
  /\ pc' = "aborted"
  /\ UNCHANGED <<apivars, dsvars, fitvars>>

NextDataset ==
  DatasetInit \/ DatasetInitAssertFails \/ DatasetGetItem \/ DatasetGetItemRaises

SpecDataset == InitDataset /\ [][NextDataset]_vars

(************************ classifier and evaluator **************************)
Params == 0..(NumParams - 1)

\* argmax of self.model(contents, content_lengths) for one content: the
\* predicted class, a fixed function of the parameters and the content.
Forward(p, c) == (c + p * ((c % 3) \div 2)) % NumClasses

ForwardBatch(p, batch) ==
  [k \in DOMAIN batch.contents |-> Forward(p, batch.contents[k])]

\* Rationals <<num, den>> in lowest terms, den > 0.
Frac(n, d) == LET g == Gcd(n, d) IN <<n \div g, d \div g>>

FracLess(a, b) == a[1] * b[2] < b[1] * a[2]

FracAdd(a, b) == Frac(a[1] * b[2] + b[1] * a[2], a[2] * b[2])

RECURSIVE FracSum(_)
FracSum(fs) == IF fs = << >> THEN Zero ELSE FracAdd(fs[1], FracSum(Tail(fs)))

\* sum(val_accuracies) / len(val_accuracies)
Mean(fs) == LET t == FracSum(fs) IN Frac(t[1], t[2] * Len(fs))

Matches(pred, labels0) == Cardinality({k \in DOMAIN pred : pred[k] = labels0[k]})

\* float((predicted_labels == labels).float().mean())
Accuracy(pred, labels0) == Frac(Matches(pred, labels0), Len(pred))

\* self.loss(pred, labels): a function of the predictions and the labels
\* (here the fraction of wrong predictions stands for the cross entropy).
Loss(pred, labels0) == Frac(Len(pred) - Matches(pred, labels0), Len(pred))

\* nn.CrossEntropyLoss raises on a target outside [0, NumClasses).
LossRaises(labels0) == \E k \in DOMAIN labels0 : labels0[k] \notin 0..(NumClasses - 1)

\* Mutant of ModeAfterPredict: self.model.train() is never called.
ModeAfterPredict_StaysEval(raised) == "eval"

\* The classifier's mode when control leaves predict: self.model.eval() is
\* undone by self.model.train() only on the path that reaches it.
ModeAfterPredict(raised) == IF raised THEN "eval" ELSE "training"

\* Mutant of ParamsAfterPredict: the evaluation updates the parameters.
ParamsAfterPredict_Trains(p) == (p + 1) % NumParams

\* The parameters when control leaves predict: torch.no_grad(), no
\* optimizer call.
ParamsAfterPredict(p) == p

PredictRaises(batch) == LossRaises(batch.labels)

\* predict(contents, labels, content_lengths) when nothing raises.
Predict(p, batch) ==
  LET pred == ForwardBatch(p, batch)
  IN  [losses   |-> Loss(pred, batch.labels),
       accuracy |-> Accuracy(pred, batch.labels),
       mode     |-> ModeAfterPredict(FALSE),
       params   |-> ParamsAfterPredict(p)]

(********************************* fit **************************************)
IterFile(i) == <<"model_iter", i>>
BestFile == <<"best_model", 0>>

\* torch.save(state_dict, path)
SaveFile(fs, tag, content) ==
  [t \in (DOMAIN fs) \cup {tag} |-> IF t = tag THEN content ELSE fs[t]]

CountWrite(ws, tag) ==
  [t \in (DOMAIN ws) \cup {tag} |->
     IF t = tag THEN (IF tag \in DOMAIN ws THEN ws[tag] + 1 ELSE 1) ELSE ws[t]]

\* Mutant of InnerLoopContinues: the inner loop runs one step less.
InnerLoopContinues_OneLess(bs) == bs < InnerSteps - 1

\* Mutant of InnerLoopContinues: the inner loop runs once more.
InnerLoopContinues_OneMore(bs) == bs < InnerSteps + 1

\* for batch_step in range(1, 20): a value follows bs
InnerLoopContinues(bs) == bs < InnerSteps

\* Mutant of IsSaveIteration: the iterations are counted from 0.
IsSaveIteration_FromZero(i) == (i - 1) % SaveEvery = 0

\* if iter_step % 10 == 0
IsSaveIteration(i) == i % SaveEvery = 0

\* Mutant of IsNewBest: every fuller pass overwrites the best checkpoint.
IsNewBest_Always(total, best) == TRUE

\* Mutant of IsNewBest: a tie counts as a new best.
IsNewBest_NonStrict(total, best) == ~FracLess(total, best)

\* Mutant of InitialBest: the record starts below every accuracy.
InitialBest_Negative == <<0 - 1, 1>>

\* best_accuracy = 0
InitialBest == Zero

\* if total_val_accuracy > best_accuracy
IsNewBest(total, best) == FracLess(best, total)

\* range(0, len(self.val_set), self.val_batch_size) has a next value
PassContinues(bi, ds) == bi < DatasetLen(ds)

\* Raw labels of the examples given to fit: example i has label (i % 4) + 1,
\* except that example bad (if any) has the label NumClasses + 1.
FitLabels(n, bad) ==
  [i \in 1..n |-> IF i = bad THEN NumClasses + 1 ELSE (i % NumClasses) + 1]

\* The numbers of examples given to fit.
FitSizes == {5 * k : k \in 0..MaxSizeSteps}

InitFit ==
  /\ pc = "fit_start"
  /\ \E n \in FitSizes :
       /\ contents = [i \in 1..n |-> i]
       /\ \/ \E bad \in 0..n : labels = FitLabels(n, bad)
          \/ labels = FitLabels(n + 1, 0)
  /\ vf = <<1, DefaultFractionDen>>
  /\ rng \in {0, MaxRng}
  /\ split_out = NoValue
  /\ split_hist = NoSplitYet
  /\ train_set = NoDataset
  /\ val_set = NoDataset
  /\ log = << >>
  /\ max_iter \in {0, 1, MaxIter}
  /\ batch_size \in 1..MaxFitB
  /\ val_batch_size \in 1..MaxFitBv
  /\ iter_step = 0 /\ batch_step = 0 /\ batch_index = 0
  /\ mode = "training"
  /\ params \in Params
  /\ opt_steps = 0
  /\ train_draws = 0 /\ n_records = 0 /\ last_record = NoValue
  /\ files = << >> /\ writes = << >>
  /\ best_accuracy = Zero /\ val_accuracies = << >> /\ pass_evals = << >>
  /\ pass_hist = << >> /\ best_iter = 0 /\ val_draws = 0
  /\ cur_batch = NoValue /\ last_train = NoValue /\ last_predict = NoValue

\* Mutant of OuterLoopContinues: the last iteration is left out.
OuterLoopContinues_StopsEarly(i, m) == i < m - 1

\* for iter_step in range(1, self.max_iter + 1): a value follows i
OuterLoopContinues(i, m) == i < m

\* for iter_step in range(1, self.max_iter + 1): the next value, or the end.
NextIteration ==
  IF OuterLoopContinues(iter_step, max_iter)
    THEN /\ iter_step' = iter_step + 1
         /\ batch_step' = 1
         /\ pc' = "train"
    ELSE /\ pc' = "done"
         /\ UNCHANGED <<iter_step, batch_step>>

\* fit, from its call to the first iteration of the outer loop.
FitStart ==
  /\ pc = "fit_start"
  /\ SplitAssertHolds(contents, labels)
  /\ LET sp == BuildValidationSplit(contents, labels, <<1, DefaultFractionDen>>)
     IN  /\ split_out' = sp
         /\ train_set' = NewDataset(sp.train_contents, sp.train_labels)
         /\ val_set' = NewDataset(sp.val_contents, sp.val_labels)
  /\ split_hist' = SplitReturns(split_hist)
  /\ rng' = AfterShuffle(SeededState(rng), Len(contents))
  /\ opt_steps' = 0
  /\ mode' = "training"
  /\ best_accuracy' = InitialBest
  /\ NextIteration
  /\ UNCHANGED <<contents, labels, vf, log, cfgvars, batch_index, params, outvars,
                 val_accuracies, pass_evals, pass_hist, best_iter, tmpvars>>

\* fit: the assertion of _build_validation_split fails.
FitAssertFails ==
  /\ pc = "fit_start"
  /\ ~SplitAssertHolds(contents, labels)
  /\ pc' = "aborted"
  /\ UNCHANGED <<apivars, dsvars, fitvars>>

\* One pass of the inner loop body: draw, forward, loss, backward, clip,
\* optimizer step, zero_grad.
TrainStep ==
  /\ pc = "train"
  /\ ~GetItemRaises(train_set, batch_size)
  /\ LET r == GetItem(train_set, batch_size)
         pred == ForwardBatch(params, r.batch)
     IN  /\ ~LossRaises(r.batch.labels)
         /\ train_set' = r.ds
         /\ last_train' = [pred |-> pred, labels |-> r.batch.labels,
                           losses |-> Loss(pred, r.batch.labels),
                           iter |-> iter_step, step |-> batch_step,
                           val_draws |-> val_draws]
  /\ train_draws' = train_draws + 1
  /\ params' \in Params
  /\ opt_steps' = opt_steps + 1
  /\ IF InnerLoopContinues(batch_step)
       THEN batch_step' = batch_step + 1 /\ pc' = pc
       ELSE batch_step' = batch_step /\ pc' = "val_draw"
  /\ last_record' = NoValue
  /\ last_predict' = NoValue
  /\ UNCHANGED <<apivars, val_set, log, cfgvars, iter_step, batch_index, mode,
                 n_records, files, writes, evalvars, val_draws, cur_batch>>

\* The inner loop body raises: StopIteration from an empty training set, or
\* the loss on a label out of range.
TrainStepRaises ==
  /\ pc = "train"
  /\ IF GetItemRaises(train_set, batch_size)
       THEN UNCHANGED <<train_set, train_draws>>
       ELSE LET r == GetItem(train_set, batch_size)
            IN  /\ LossRaises(r.batch.labels)
                /\ train_set' = r.ds
                /\ train_draws' = train_draws + 1
  /\ pc' = "aborted"
  /\ UNCHANGED <<apivars, val_set, log, cfgvars, loopvars, netvars, outvars,
                 evalvars, val_draws, cur_batch, last_train, last_predict>>

\* After the inner loop: the validation batch is drawn.
DrawVal ==
  /\ pc = "val_draw"
  /\ ~GetItemRaises(val_set, val_batch_size)
  /\ LET r == GetItem(val_set, val_batch_size)
     IN  val_set' = r.ds /\ cur_batch' = r.batch
  /\ val_draws' = val_draws + 1
  /\ pc' = "val_predict"
  /\ UNCHANGED <<apivars, train_set, log, cfgvars, loopvars, netvars, outvars,
                 evalvars, train_draws, last_train, last_predict>>

\* The validation draw raises StopIteration: the validation set is empty.
DrawValRaises ==
  /\ pc = "val_draw"
  /\ GetItemRaises(val_set, val_batch_size)
  /\ pc' = "aborted"
  /\ UNCHANGED <<apivars, dsvars, fitvars>>

\* History: the last predict call has ended (it returned or it raised).
PredictExited == "raised" \in DOMAIN last_predict

\* History: predict was last called, with no optimizer step since, on the
\* same input.
SameInputAsLast(batch) ==
  /\ "input" \in DOMAIN last_predict
  /\ last_predict.input = batch

\* predict returns: of the sampled batch, or of a batch of the fuller pass.
PredictReturns ==
  /\ pc \in {"val_predict", "full_predict"}
  /\ ~PredictRaises(cur_batch)
  /\ LET out == Predict(params, cur_batch)
     IN  /\ mode' = out.mode
         /\ params' = out.params
         /\ last_predict' = [input |-> cur_batch, raised |-> FALSE,
                             losses |-> out.losses, accuracy |-> out.accuracy,
                             repeated |-> SameInputAsLast(cur_batch),
                             entered |-> mode]
         /\ IF pc = "val_predict"
              THEN /\ pc' = "report"
                   /\ UNCHANGED <<batch_index, val_accuracies, pass_evals>>
              ELSE /\ pc' = "full_draw"
                   /\ val_accuracies' = Append(val_accuracies, out.accuracy)
                   /\ pass_evals' = pass_evals \o cur_batch.idx
                   /\ batch_index' = batch_index + val_batch_size
  /\ cur_batch' = NoValue
  /\ UNCHANGED <<apivars, dsvars, cfgvars, iter_step, batch_step, opt_steps,
                 outvars, best_accuracy, pass_hist, best_iter, train_draws,
                 val_draws, last_train>>

\* predict raises in the loss computation.
PredictRaisesError ==
  /\ pc \in {"val_predict", "full_predict"}
  /\ PredictRaises(cur_batch)
  /\ mode' = ModeAfterPredict(TRUE)
  /\ last_predict' = [input |-> cur_batch, raised |-> TRUE,
                      repeated |-> SameInputAsLast(cur_batch),
                      entered |-> mode]
  /\ pc' = "aborted"
  /\ UNCHANGED <<apivars, dsvars, cfgvars, loopvars, params, opt_steps, outvars,
                 evalvars, train_draws, val_draws, cur_batch, last_train>>

\* Mutant of ReportedTrainAccuracy: the predictions are compared with the
\* raw labels, not with the zero-based ones.
ReportedTrainAccuracy_RawLabels(lt) ==
  Accuracy(lt.pred, [k \in DOMAIN lt.labels |-> lt.labels[k] + 1])

\* predicted_labels = argmax(pred); accuracy = mean(predicted_labels == labels)
\* on the pred and labels that the inner loop left.
ReportedTrainAccuracy(lt) == Accuracy(lt.pred, lt.labels)

\* After fit was aborted by a predict that raised, its caller draws a batch
\* of the training set and calls predict on it; predict returns.
PredictAfterAbort ==
  /\ pc = "aborted"
  /\ PredictExited
  /\ last_predict.raised
  /\ ~GetItemRaises(train_set, val_batch_size)
  /\ LET r == GetItem(train_set, val_batch_size)
         out == Predict(params, r.batch)
     IN  /\ ~PredictRaises(r.batch)
         /\ train_set' = r.ds
         /\ cur_batch' = r.batch
         /\ mode' = out.mode
         /\ params' = out.params
         /\ last_predict' = [input |-> r.batch, raised |-> FALSE,
                             losses |-> out.losses, accuracy |-> out.accuracy,
                             repeated |-> FALSE, entered |-> mode]
  /\ UNCHANGED <<pc, apivars, val_set, log, cfgvars, loopvars, opt_steps,
                 outvars, evalvars, train_draws, val_draws, last_train>>

\* The progress record is printed; the outer loop goes on unless this is a
\* checkpoint iteration.
EmitRecord ==
  /\ pc = "report"
  /\ n_records' = n_records + 1
  /\ last_record' = [iter |-> iter_step,
                     train_loss |-> last_train.losses,
                     train_acc |-> ReportedTrainAccuracy(last_train),
                     val_loss |-> last_predict.losses,
                     val_acc |-> last_predict.accuracy]
  /\ IF IsSaveIteration(iter_step)
       THEN pc' = "save" /\ UNCHANGED <<iter_step, batch_step>>
       ELSE NextIteration
  /\ UNCHANGED <<apivars, dsvars, cfgvars, batch_index, netvars, files, writes,
                 evalvars, tmpvars>>

\* The periodic checkpoint is written and the fuller pass begins.
SaveCheckpoint ==
  /\ pc = "save"
  /\ files' = SaveFile(files, IterFile(iter_step), params)
  /\ writes' = CountWrite(writes, IterFile(iter_step))
  /\ val_accuracies' = << >>
  /\ pass_evals' = << >>
  /\ batch_index' = 0
  /\ pc' = "full_draw"
  /\ UNCHANGED <<apivars, dsvars, cfgvars, iter_step, batch_step, netvars,
                 n_records, last_record, best_accuracy, pass_hist, best_iter,
                 tmpvars>>

\* The fuller pass draws its next batch.
FullDraw ==
  /\ pc = "full_draw"
  /\ PassContinues(batch_index, val_set)
  /\ LET r == GetItem(val_set, val_batch_size)
     IN  val_set' = r.ds /\ cur_batch' = r.batch
  /\ val_draws' = val_draws + 1
  /\ pc' = "full_predict"
  /\ UNCHANGED <<apivars, train_set, log, cfgvars, loopvars, netvars, outvars,
                 evalvars, train_draws, last_train, last_predict>>

\* The fuller pass is over: the average is compared with the best so far.
BestUpdate ==
  /\ pc = "full_draw"
  /\ ~PassContinues(batch_index, val_set)
  /\ Len(val_accuracies) > 0
  /\ LET total_val_accuracy == Mean(val_accuracies)
     IN  /\ pass_hist' = Append(pass_hist, total_val_accuracy)
         /\ IF IsNewBest(total_val_accuracy, best_accuracy)
              THEN /\ best_accuracy' = total_val_accuracy
                   /\ files' = SaveFile(files, BestFile, params)
                   /\ writes' = CountWrite(writes, BestFile)
                   /\ best_iter' = iter_step
              ELSE UNCHANGED <<best_accuracy, files, writes, best_iter>>
  /\ NextIteration
  /\ UNCHANGED <<apivars, dsvars, cfgvars, batch_index, netvars, n_records,
                 last_record, val_accuracies, pass_evals, tmpvars>>

Next ==
  \/ FitStart \/ FitAssertFails
  \/ TrainStep \/ TrainStepRaises
  \/ DrawVal \/ DrawValRaises
  \/ PredictReturns \/ PredictRaisesError \/ PredictAfterAbort
  \/ EmitRecord \/ SaveCheckpoint \/ FullDraw \/ BestUpdate

Spec == InitFit /\ [][Next]_vars

\* Both entry points that assert len(contents) == len(labels): a call of
\* fit, or the construction of Dataset objects by another caller.
InitEntry == InitFit \/ InitDataset

NextEntry == Next \/ NextDataset

SpecEntry == InitEntry /\ [][NextEntry]_vars

\* The calls of fit whose runs are followed to their end: those of InitFit
\* on at most 5 * MaxFairSteps examples, with batches of one example and the
\* generator and the parameters in their first state.
InitFair ==
  /\ InitFit
  /\ Len(contents) <= 5 * MaxFairSteps
  /\ rng = 0
  /\ batch_size = 1
  /\ val_batch_size = 1
  /\ params = 0

\* fit is one sequential thread of control: a statement that can run does run.
FairSpec == InitFair /\ [][Next]_vars /\ WF_vars(Next)


(***************************************************************************)
(*                         Claims about the split                          *)
(***************************************************************************)
SplitReturned == "train_contents" \in DOMAIN split_out

\* k = floor(n * f) for the rational f = <<num, den>>, stated by its
\* defining inequalities.
IsFloorOf(k, n, f) == k * f[2] <= n * f[1] /\ n * f[1] < (k + 1) * f[2]

\* The number of positions of the sequence s that hold x.
Occurrences(s, x) == Cardinality({j \in DOMAIN s : s[j] = x})

\* C1: whenever _build_validation_split has returned for equal-length inputs
\* of length N and a fraction f in [0,1], the validation partition is the
\* first floor(N*f) items of the shuffled pair list, the training partition
\* is the remaining N - floor(N*f) items, every input position occurs in
\* exactly one of the two partitions and exactly once, and every content is
\* still paired with its own label.
C1_SplitPartition ==
  SplitReturned =>
    LET N == Len(contents)
        o == split_out
        shuffled == Seed0Perm(N)
        k == Len(o.val_contents)
    IN  /\ IsFloorOf(k, N, vf)
        /\ Len(o.val_labels) = k /\ Len(o.val_idx) = k
        /\ Len(o.train_contents) = N - k
        /\ Len(o.train_labels) = N - k /\ Len(o.train_idx) = N - k
        /\ \A j \in 1..k : o.val_idx[j] = shuffled[j]
        /\ \A j \in 1..(N - k) : o.train_idx[j] = shuffled[k + j]
        /\ \A i \in 1..N :
             Occurrences(o.train_idx, i) + Occurrences(o.val_idx, i) = 1
        /\ Range(o.train_idx) \cap Range(o.val_idx) = {}
        /\ \A j \in 1..(N - k) :
             /\ o.train_contents[j] = contents[o.train_idx[j]]
             /\ o.train_labels[j] = labels[o.train_idx[j]]
        /\ \A j \in 1..k :
             /\ o.val_contents[j] = contents[o.val_idx[j]]
             /\ o.val_labels[j] = labels[o.val_idx[j]]

\* C1 witness: a split of three examples, two of them with the same content,
\* has returned one validation example and two training examples.
C1_Witness ==
  /\ SplitReturned
  /\ Len(contents) = 3
  /\ contents[1] = contents[2]
  /\ labels[1] # labels[2]
  /\ Len(split_out.val_contents) = 1
  /\ Len(split_out.train_contents) = 2

(***************************************************************************)
(*                        Claims about the Dataset                         *)
(***************************************************************************)
\* The retrievals of one Dataset object, in call order.
SubLog(o) == SelectSeq(log, LAMBDA e : e.set = o)

DatasetOf(o) == IF o = "train" THEN train_set ELSE val_set

\* The number of items drawn by the first m retrievals of the sequence sl.
RECURSIVE DrawnBefore(_, _)
DrawnBefore(sl, m) == IF m = 0 THEN 0 ELSE DrawnBefore(sl, m - 1) + sl[m].B

\* C9: the j-th item ever drawn from a Dataset of N >= 1 pairs (j from 0,
\* over all its retrievals) is the stored pair at index j mod N, with its
\* own content and its own label, and a retrieval of size B advances the
\* cursor by exactly B.
C9_CyclicStreamOrder ==
  \A o \in {"train", "val"} :
    LET sl == SubLog(o)
        ds == DatasetOf(o)
        N == Len(ds.contents)
    IN  /\ \A m \in DOMAIN sl :
             /\ Len(sl[m].batch.idx) = sl[m].B
             /\ Len(sl[m].batch.contents) = sl[m].B
             /\ \A k \in 1..sl[m].B :
                  LET j == DrawnBefore(sl, m - 1) + (k - 1)
                  IN  /\ sl[m].batch.idx[k] = (j % N) + 1
                      /\ sl[m].batch.contents[k] = ds.contents[(j % N) + 1]
                      /\ sl[m].batch.labels[k] = ds.labels[(j % N) + 1] - 1
        /\ N >= 1 => ds.pos = DrawnBefore(sl, Len(sl)) % N

\* C9 witness: a batch has wrapped from the last stored pair to the first
\* after an earlier retrieval of the same Dataset.
C9_Witness ==
  \E o \in {"train", "val"} :
    LET sl == SubLog(o)
        N == Len(DatasetOf(o).contents)
    IN  /\ N >= 2
        /\ Len(sl) >= 2
        /\ \E k \in 1..(sl[2].B - 1) :
             sl[2].batch.idx[k] = N /\ sl[2].batch.idx[k + 1] = 1

\* C3: any ceil(N/B) consecutive retrievals of the same size B from a
\* Dataset of N >= 1 pairs, from whatever cursor position the earlier
\* retrievals left, together contain every stored pair.
C3_CyclicCoverage ==
  \A o \in {"train", "val"} :
    LET sl == SubLog(o)
        N == Len(DatasetOf(o).contents)
    IN  \A B \in 1..MaxB, m \in DOMAIN sl :
          LET w == CeilDiv(N, B)
          IN  (/\ N >= 1
               /\ m + w - 1 <= Len(sl)
               /\ \A q \in m..(m + w - 1) : sl[q].B = B)
              => UNION {Range(sl[q].batch.idx) : q \in m..(m + w - 1)} = 1..N

\* C3 witness: two consecutive retrievals of size 2 from a Dataset of three
\* pairs, begun at a cursor that an earlier retrieval of another size left
\* inside the cycle.
C3_Witness ==
  LET sl == SubLog("train")
  IN  /\ Len(train_set.contents) = 3
      /\ Len(sl) = 3
      /\ sl[1].B = 1 /\ sl[2].B = 2 /\ sl[3].B = 2

(***************************************************************************)
(*                     Claims about fit and predict                        *)
(***************************************************************************)
\* The outer iterations that have run to their end.
Completed == IF pc = "done" THEN iter_step ELSE iter_step - 1

\* fit stands between two outer iterations, or has returned.
AtLoopHead == pc = "done" \/ (pc = "train" /\ batch_step = 1)

\* C2 (as claimed): on every exit path of predict, the normal one and the
\* one on which the forward pass or the loss raises, the classifier is in
\* training mode.
C2_ModeRestoredOnEveryExit == PredictExited => mode = "training"

\* C4: while fit has not aborted every optimizer step was preceded by
\* exactly one training-batch draw; after k completed outer iterations
\* exactly 19 * k optimizer steps have been applied and k progress records
\* printed; after iteration 1 alone no checkpoint file exists.
C4_StepAccounting ==
  /\ pc \notin {"fit_start", "aborted"} => train_draws = opt_steps
  /\ AtLoopHead =>
       /\ opt_steps = 19 * Completed
       /\ n_records = Completed
       /\ Completed = 1 => DOMAIN files = {}

\* C4 witness: iteration 1 has completed and iteration 2 is about to start.
C4_Witness ==
  /\ pc = "train" /\ iter_step = 2 /\ batch_step = 1
  /\ opt_steps = 19 /\ n_records = 1

IterTags == {t \in DOMAIN files : t[1] = "model_iter"}

\* The outer iterations whose periodic save, if they have one, has happened.
PastSavePoint ==
  IF pc \in {"full_draw", "full_predict", "done"} THEN iter_step ELSE iter_step - 1

\* C5: while fit has not aborted, the iteration-tagged checkpoints are
\* exactly those of the iterations i so far with i mod 10 = 0, and each of
\* them has been written exactly once.
C5_PeriodicCheckpoints ==
  pc # "aborted" =>
    /\ IterTags = {<<"model_iter", i>> : i \in {j \in 1..PastSavePoint : j % 10 = 0}}
    /\ \A t \in IterTags : writes[t] = 1

\* C5 witness: iteration 20 has saved its checkpoint, next to that of
\* iteration 10.
C5_Witness ==
  /\ pc = "done" /\ iter_step = 20
  /\ IterTags = {<<"model_iter", 10>>, <<"model_iter", 20>>}

BestWrites == IF BestFile \in DOMAIN writes THEN writes[BestFile] ELSE 0

BestContent == IF BestFile \in DOMAIN files THEN <<files[BestFile]>> ELSE << >>

PassOver == pc = "full_draw" /\ batch_index >= Len(val_set.labels)

\* C6: the 'best' checkpoint and the best-accuracy record change only in
\* the step that ends the fuller validation pass of an iteration that is a
\* multiple of 10; that step writes the 'best' checkpoint and sets the
\* record to the average of the pass if the average strictly exceeds the
\* record, and otherwise leaves the record and every file as they are.
C6_BestModelPolicy ==
  [][/\ (BestWrites' # BestWrites \/ BestContent' # BestContent
          \/ best_accuracy' # best_accuracy)
        => (PassOver /\ iter_step % 10 = 0)
     /\ PassOver =>
          LET avg == Mean(val_accuracies)
          IN  IF avg[1] * best_accuracy[2] > best_accuracy[1] * avg[2]
                THEN /\ best_accuracy' = avg
                     /\ BestWrites' = BestWrites + 1
                     /\ BestContent' = <<params>>
                ELSE /\ best_accuracy' = best_accuracy
                     /\ files' = files
                     /\ writes' = writes]_vars

\* C6 witness: at iteration 20 a pass has ended whose average equals the
\* record set at iteration 10, and 'best' has been written only once.
C6_Witness ==
  /\ pc = "done" /\ iter_step = 20
  /\ best_accuracy # Zero
  /\ Mean(val_accuracies) = best_accuracy
  /\ BestWrites = 1

\* Iteration 10 has completed.
Iteration10Completed ==
  pc # "fit_start" /\ (iter_step > 10 \/ (pc = "done" /\ iter_step = 10))

\* C7 (as claimed): once iteration 10 has completed, model_iter_10 exists
\* and best_model exists, whatever the average of iteration 10 was.
C7_BestExistsAfterIteration10 ==
  Iteration10Completed =>
    IterFile(10) \in DOMAIN files /\ BestFile \in DOMAIN files

\* val_accuracies still holds the pass of iteration 10.
HoldsPassOf10 ==
  /\ pc # "fit_start"
  /\ \/ iter_step \in 11..19
     \/ iter_step = 20 /\ pc \in {"train", "val_draw", "val_predict", "report", "save"}

\* C7 (amended): once iteration 10 has completed, model_iter_10 exists, and
\* until the next pass best_model exists if and only if the average of the
\* pass of iteration 10 is strictly greater than 0, the initial record.
C7_BestExistsIffPositive ==
  /\ Iteration10Completed => IterFile(10) \in DOMAIN files
  /\ HoldsPassOf10 =>
       (BestFile \in DOMAIN files <=> Mean(val_accuracies)[1] > 0)

\* C7 witness: iteration 10 has completed with an average of 0 and there is
\* no best_model.
C7_Witness ==
  /\ pc = "train" /\ iter_step = 11
  /\ Mean(val_accuracies) = Zero
  /\ IterFile(10) \in DOMAIN files
  /\ BestFile \notin DOMAIN files

\* C8 (as claimed): when the fuller pass is over it has drawn one batch per
\* value of range(0, V, Bv); if V is a multiple of Bv every validation
\* example was evaluated exactly once, and otherwise some validation
\* example was dropped, i.e. not evaluated in the pass.
C8_FullerPassCoverage ==
  PassOver =>
    LET V == Len(val_set.labels)
        Bv == val_batch_size
    IN  /\ Len(val_accuracies) = CeilDiv(V, Bv)
        /\ Len(pass_evals) = Bv * CeilDiv(V, Bv)
        /\ IF V % Bv = 0
             THEN \A v \in 1..V : Occurrences(pass_evals, v) = 1
             ELSE \E v \in 1..V : Occurrences(pass_evals, v) = 0

\* A step of predict: it returns or it raises.
PredictStep == pc \in {"val_predict", "full_predict"} /\ pc' # pc

\* C10: a call of predict changes neither the trainable parameters, nor
\* the optimizer state, nor the best-accuracy record, nor a dataset cursor;
\* and when the call before it, with no optimizer step in between, had the
\* same input, it returns the same loss and the same accuracy.
C10_PredictFrameAndIdempotence ==
  [][PredictStep =>
       /\ params' = params
       /\ opt_steps' = opt_steps
       /\ best_accuracy' = best_accuracy
       /\ train_set' = train_set
       /\ val_set' = val_set
       /\ (SameInputAsLast(cur_batch) /\ pc' # "aborted") =>
            /\ last_predict'.losses = last_predict.losses
            /\ last_predict'.accuracy = last_predict.accuracy]_vars

\* C10 witness: predict has returned for the second time in a row on the
\* same input, with parameters under which it is not fully accurate.
C10_Witness ==
  /\ PredictExited
  /\ ~last_predict.raised
  /\ last_predict.repeated
  /\ last_predict.accuracy # <<1, 1>>

(************************* C11: split determinism ****************************)
\* C11: every call of _build_validation_split on the same contents, labels
\* and validation_fraction returns the partitions that the call before it
\* returned, equal in membership and in order, whatever was drawn from the
\* random generator between the two calls.
C11_SplitDeterminism ==
  [][(SplitReturned /\ SplitReturned') => split_out' = split_out]_vars

\* C11 witness: the split of three examples has returned a second time, with
\* one validation example, after another user of the generator drew from it
\* between the two calls.
C11_Witness ==
  /\ SplitReturned
  /\ split_hist.calls = 2
  /\ split_hist.drawn
  /\ Len(contents) = 3
  /\ Len(split_out.val_idx) = 1
  /\ split_out.train_idx # <<1, 2>>

(************************** C12: label remapping *****************************)
\* C12: in every batch that Dataset.__getitem__ returned, the i-th label is
\* the raw label of the i-th pair drawn minus 1, so that for raw labels in
\* 1..4 every returned label is in 0..3; retrieval leaves the stored labels
\* as they were given to the constructor.
C12_LabelRemapping ==
  /\ \A m \in DOMAIN log :
       LET b == log[m].batch
       IN  /\ Len(b.labels) = log[m].B
           /\ \A i \in 1..log[m].B :
                /\ b.labels[i] = labels[b.idx[i]] - 1
                /\ b.labels[i] \in 0..(NumClasses - 1)
  /\ pc = "ds_ready" =>
       /\ train_set.labels = labels
       /\ val_set.labels = labels

\* C12 witness: after an earlier retrieval, a batch of two returned the
\* labels 0 and 3 for the raw labels 1 and 4.
C12_Witness ==
  /\ Len(log) >= 2
  /\ \E m \in 2..Len(log) :
       /\ log[m].B = 2
       /\ log[m].batch.labels = <<0, 3>>
       /\ labels[log[m].batch.idx[1]] = 1
       /\ labels[log[m].batch.idx[2]] = NumClasses

(***************** C13: termination without early stopping *******************)
\* C13: when no operation raises, fit runs exactly max_iter outer iterations
\* and then is done: every run ends done or aborted by a raise, fit is done
\* only after iteration max_iter, with one progress record per iteration and
\* whatever the losses and accuracies were, and the iteration counter never
\* passes max_iter.
C13_ExactlyMaxIterIterations ==
  /\ [](iter_step <= max_iter)
  /\ [](pc = "done" => iter_step = max_iter /\ n_records = max_iter)
  /\ <>(pc \in {"done", "aborted"})

\* C13 witness: fit is done after all MaxIter iterations although no fuller
\* pass ever scored above 0.
C13_Witness ==
  /\ pc = "done"
  /\ max_iter = MaxIter
  /\ iter_step = MaxIter
  /\ n_records = MaxIter
  /\ Len(pass_hist) = 2
  /\ best_accuracy = Zero

(************************ C14: precondition failure **************************)
\* C14: when len(contents) # len(labels), fit fails in the validation split,
\* and the construction of a Dataset fails in the constructor: control is at
\* the entry or aborted, the split has not returned, no Dataset exists, no
\* batch was drawn, no optimizer step was applied and no checkpoint file was
\* written.
C14_PreconditionFailure ==
  Len(contents) # Len(labels) =>
    /\ pc \in {"fit_start", "ds_new", "aborted"}
    /\ ~SplitReturned
    /\ split_hist.calls = 0
    /\ train_set = NoDataset /\ val_set = NoDataset
    /\ log = << >> /\ cur_batch = NoValue
    /\ train_draws = 0 /\ val_draws = 0
    /\ opt_steps = 0 /\ last_train = NoValue /\ last_predict = NoValue
    /\ n_records = 0
    /\ files = << >> /\ writes = << >>

\* C14 witness: fit, called for MaxIter iterations on ten contents and eleven
\* labels, has failed.
C14_Witness ==
  /\ pc = "aborted"
  /\ max_iter = MaxIter
  /\ Len(contents) = 10
  /\ Len(labels) = 11

(********************* C15: mode on the normal paths *************************)
\* C15: outside a predict call the classifier is in inference mode only
\* where a predict that raised has left it; after every predict that
\* returned it is in training mode, whatever its mode was when predict was
\* entered, and so every inner-loop step of fit (forward pass and optimizer
\* step), also in the iterations after a sampled or a fuller validation
\* pass, starts in training mode.
C15_ModeOnNormalPaths ==
  /\ mode \in {"training", "eval"}
  /\ mode = "eval" => (pc = "aborted" /\ PredictExited /\ last_predict.raised)
  /\ (PredictExited /\ ~last_predict.raised) => mode = "training"
  /\ pc \notin {"aborted"} => mode = "training"

\* C15 witness: a predict call that was entered in inference mode (left by a
\* call that raised) has returned, and the classifier is in training mode.
C15_Witness ==
  /\ PredictExited
  /\ ~last_predict.raised
  /\ last_predict.entered = "eval"
  /\ mode = "training"

(********************* C16: content of the progress record *******************)
\* C16: the progress record of an outer iteration reports the training loss
\* and training accuracy of the InnerSteps-th (last) inner-loop batch of
\* that iteration alone, and the validation loss and accuracy of the one
\* validation batch, of val_batch_size items, that was drawn after the inner
\* loop and before the record.
C16_ProgressRecordContent ==
  [][n_records' = n_records + 1 =>
       LET rec == last_record'
           hits == Matches(last_train.pred, last_train.labels)
           vbatch == last_predict.input
           vhits == Matches(ForwardBatch(params, vbatch), vbatch.labels)
       IN  /\ rec.iter = iter_step
           /\ last_train.iter = iter_step
           /\ last_train.step = InnerSteps
           /\ Len(last_train.pred) = batch_size
           /\ rec.train_loss = Frac(batch_size - hits, batch_size)
           /\ rec.train_acc = Frac(hits, batch_size)
           /\ val_draws = last_train.val_draws + 1
           /\ PredictExited /\ ~last_predict.raised
           /\ Len(vbatch.contents) = val_batch_size
           /\ Len(vbatch.labels) = val_batch_size
           /\ rec.val_loss = Frac(val_batch_size - vhits, val_batch_size)
           /\ rec.val_acc = Frac(vhits, val_batch_size)]_vars

\* C16 witness: the record of iteration 2 reports a training accuracy of 1/2
\* (the last batch of two) and a validation accuracy of 0.
C16_Witness ==
  /\ last_record # NoValue
  /\ last_record.iter = 2
  /\ batch_size = 2
  /\ last_train.step = InnerSteps
  /\ last_record.train_acc = <<1, 2>>
  /\ last_record.val_acc = <<0, 1>>

(******************** C17: empty validation partition ************************)
\* fit was called for at least one iteration on labels in range, and the
\* split made an empty validation partition and a non-empty training one.
EmptyValidationRun ==
  /\ SplitReturned
  /\ pc # "fit_start"
  /\ max_iter >= 1
  /\ \A i \in DOMAIN labels : labels[i] \in 1..NumClasses
  /\ Len(val_set.contents) = 0
  /\ Len(train_set.contents) > 0

\* C17: when the validation partition is empty and the training partition is
\* not, fit does not complete iteration 1: it applies the InnerSteps
\* optimizer steps of iteration 1, then the first validation draw raises,
\* and no progress record is emitted and no checkpoint written.
C17_EmptyValidationAborts ==
  EmptyValidationRun =>
    /\ pc \in {"train", "val_draw", "aborted"}
    /\ iter_step = 1
    /\ n_records = 0
    /\ files = << >> /\ writes = << >>
    /\ val_draws = 0 /\ last_predict = NoValue
    /\ pc = "train" => opt_steps = batch_step - 1 /\ batch_step <= InnerSteps
    /\ pc \in {"val_draw", "aborted"} => opt_steps = InnerSteps
    /\ pc = "val_draw" => GetItemRaises(val_set, val_batch_size)

\* C17 witness: fit on five examples (floor(5 * 0.1) = 0 validation
\* examples) is aborted after the InnerSteps optimizer steps of iteration 1.
C17_Witness ==
  /\ EmptyValidationRun
  /\ Len(contents) = 5
  /\ max_iter = MaxIter
  /\ pc = "aborted"
  /\ opt_steps = InnerSteps

(************************ C18: the two cursors *******************************)
\* fit is running or done (it was not aborted) on the two Datasets it made.
FitRunning == pc \in {"train", "val_draw", "val_predict", "report", "save",
                      "full_draw", "full_predict", "done"}

\* The number of batches of a fuller validation pass.
PassBatches == CeilDiv(Len(val_set.contents), val_batch_size)

\* C18: the training cursor and the validation cursor are independent, and
\* the validation cursor is shared by the sampled draw of every iteration
\* and the fuller pass: each cursor stands where its own draws alone have
\* left it; after k completed outer iterations 19*k*B training items and
\* Bv*(k + floor(k/10)*ceil(V/Bv)) validation items have been drawn; and the
\* fuller pass of iteration i starts where the i + (i/10 - 1)*ceil(V/Bv)
\* earlier validation draws have left the cursor, not at the first pair.
C18_IndependentSharedCursors ==
  FitRunning =>
    LET B == batch_size
        Bv == val_batch_size
        Nt == Len(train_set.contents)
        V == Len(val_set.contents)
        k == Completed
    IN  /\ Nt > 0 => train_set.pos = (train_draws * B) % Nt
        /\ V > 0 => val_set.pos = (val_draws * Bv) % V
        /\ AtLoopHead =>
             /\ train_draws * B = InnerSteps * k * B
             /\ val_draws * Bv = Bv * (k + (k \div SaveEvery) * PassBatches)
        /\ (pc = "full_draw" /\ batch_index = 0) =>
             /\ val_draws = iter_step + ((iter_step \div SaveEvery) - 1) * PassBatches
             /\ val_set.pos = (val_draws * Bv) % V
             /\ train_draws = InnerSteps * iter_step

\* C18 witness: the fuller pass of iteration 10 over three validation
\* examples starts at the second pair, where the ten sampled draws of one
\* example left the cursor, and the training cursor is where the 190 training
\* batches left it.
C18_Witness ==
  /\ pc = "full_draw"
  /\ batch_index = 0
  /\ iter_step = SaveEvery
  /\ Len(val_set.contents) = 3
  /\ val_batch_size = 1
  /\ val_set.pos = 1
  /\ train_draws = InnerSteps * SaveEvery
  /\ train_set.pos # 0

(************** C19: the best checkpoint and the best record *****************)
\* The best-accuracy record is the greatest of 0 and the averages of all
\* fuller passes so far; the best checkpoint exists exactly if some pass
\* wrote it, and then it holds the content of the periodic checkpoint of
\* best_iter, a multiple of SaveEvery, whose pass was the earliest to attain
\* the record.
BestIsEarliestMaximum ==
  /\ best_accuracy \in {Zero} \cup Range(pass_hist)
  /\ ~FracLess(best_accuracy, Zero)
  /\ \A j \in DOMAIN pass_hist : ~FracLess(best_accuracy, pass_hist[j])
  /\ BestFile \in DOMAIN files <=> best_iter > 0
  /\ best_iter = 0 => best_accuracy = Zero
  /\ best_iter > 0 =>
       LET j == best_iter \div SaveEvery
       IN  /\ best_iter % SaveEvery = 0
           /\ best_iter <= iter_step
           /\ IterFile(best_iter) \in DOMAIN files
           /\ files[BestFile] = files[IterFile(best_iter)]
           /\ j \in DOMAIN pass_hist
           /\ pass_hist[j] = best_accuracy
           /\ \A e \in 1..(j - 1) : FracLess(pass_hist[e], best_accuracy)

\* C19: whenever best_model.pkl exists its content is that of
\* model_iter_<i>.pkl for the iteration i, a multiple of 10, that last wrote
\* it; the best-accuracy record starts at 0, never decreases, always equals
\* max(0, all fuller-pass averages so far), and i is the earliest iteration
\* that attained that maximum (a tie does not overwrite).
C19_BestCheckpointIsEarliestMaximum ==
  [][/\ BestIsEarliestMaximum'
     /\ pc = "fit_start" => (best_accuracy' = Zero /\ pass_hist' = << >>)
     /\ ~FracLess(best_accuracy', best_accuracy)]_vars

\* C19 witness: the pass of iteration 20 scored above the positive score of
\* the pass of iteration 10 and overwrote the best checkpoint with the
\* content of model_iter_20, which differs from that of model_iter_10.
C19_Witness ==
  /\ pc = "done"
  /\ best_iter = 2 * SaveEvery
  /\ Len(pass_hist) = 2
  /\ FracLess(Zero, pass_hist[1])
  /\ FracLess(pass_hist[1], pass_hist[2])
  /\ BestWrites = 2
  /\ files[BestFile] = files[IterFile(2 * SaveEvery)]
  /\ files[BestFile] # files[IterFile(SaveEvery)]

====
